---- MODULE Spec2Model ----
(***************************************************************************)
(* Model of bin/env-bin/test-network-prereqs.py: the whoami echo codec,    *)
(* the probe, the DNS validator, the port test orchestrator and main.      *)
(*                                                                         *)
(* Python strings are modelled as sequences of one-character strings, so   *)
(* that the regular expression, split, strip and concatenation of the      *)
(* source are computed and not assumed.                                    *)
(***************************************************************************)
EXTENDS Integers, Sequences, FiniteSets, TLC

(***************************************************************************)
(* Bounds of the model (not program constants).                            *)
(***************************************************************************)
\* token_bytes(16).hex() has 32 hex characters; the model draws NonceLen of them.
NonceLen == 2

\* the random hostname suffix is "-" and SuffixLen hex characters
SuffixLen == 1

\* resolve_public_dns returns at most MaxResolved addresses in the model
MaxResolved == 2

\* a response text given to parse_whoami_response on its own has at most
\* MaxLines lines
MaxLines == 3

(***************************************************************************)
(* String helpers (str methods and the pieces of the `re` pattern).        *)
(***************************************************************************)
\* optional values: None, or Some(v)
None == [some |-> FALSE, v |-> <<>>]

Some(s) == [some |-> TRUE, v |-> s]

\* the characters \s and str.strip() treat as whitespace (inside one line)
WS == {" ", "\t"}

\* the characters \d matches
Digits == {"0", "1", "2", "3", "4", "5", "6", "7", "8", "9"}

RECURSIVE LStrip(_)
LStrip(s) == IF s # <<>> /\ Head(s) \in WS THEN LStrip(Tail(s)) ELSE s

RECURSIVE RStrip(_)
RStrip(s) ==
    IF s # <<>> /\ s[Len(s)] \in WS THEN RStrip(SubSeq(s, 1, Len(s) - 1)) ELSE s

\* str.strip()
Strip(s) == LStrip(RStrip(s))

\* str.startswith(p)
StartsWith(s, p) == Len(s) >= Len(p) /\ SubSeq(s, 1, Len(p)) = p

EndsWith(s, p) == Len(s) >= Len(p) /\ SubSeq(s, Len(s) - Len(p) + 1, Len(s)) = p

DropFirst(s, n) == SubSeq(s, n + 1, Len(s))

DropLast(s, n) == SubSeq(s, 1, Len(s) - n)

\* number of characters of the longest suffix of s made of \d characters
RECURSIVE TrailingDigits(_)
TrailingDigits(s) ==
    IF s # <<>> /\ s[Len(s)] \in Digits
    THEN 1 + TrailingDigits(DropLast(s, 1)) ELSE 0

\* position of the first occurrence of character c in s, 0 when absent
RECURSIVE IndexOf(_, _)
IndexOf(s, c) ==
    IF s = <<>> THEN 0
    ELSE IF Head(s) = c THEN 1
    ELSE LET r == IndexOf(Tail(s), c) IN IF r = 0 THEN 0 ELSE r + 1

\* str.splitlines() for the line break "\n"
RECURSIVE SplitLines(_)
SplitLines(s) ==
    IF s = <<>> THEN <<>>
    ELSE LET i == IndexOf(s, "\n") IN
         IF i = 0 THEN <<s>>
         ELSE <<SubSeq(s, 1, i - 1)>> \o SplitLines(DropFirst(s, i))

\* "\n".join(lines) with a final line break
RECURSIVE JoinLines(_)
JoinLines(ls) ==
    IF ls = <<>> THEN <<>> ELSE Head(ls) \o <<"\n">> \o JoinLines(Tail(ls))

(***************************************************************************)
(* Literals of the source.                                                 *)
(***************************************************************************)
sGET == <<"G", "E", "T">>

sPOST == <<"P", "O", "S", "T">>

sHTTP == <<"H", "T", "T", "P", "/">>

kHttpVerb == <<"h", "t", "t", "p", "-", "v", "e", "r", "b">>

kHttpPath == <<"h", "t", "t", "p", "-", "p", "a", "t", "h">>

kHttpVersion == <<"h", "t", "t", "p", "-", "v", "e", "r", "s", "i", "o", "n">>

kHostname == <<"H", "o", "s", "t", "n", "a", "m", "e">>

sPortTest == <<"p", "o", "r", "t", "-", "t", "e", "s", "t">>

(***************************************************************************)
(* _whoami_get_re:                                                         *)
(*   ^(GET|POST)\s+(.*[^\s])\s+HTTP/(\d+\.\d+)\s*$                         *)
(* re.match on one line.  The greedy match is unique: the verb, all the    *)
(* whitespace after it, a path that starts and ends with a non-blank       *)
(* character, whitespace, "HTTP/", digits "." digits, trailing whitespace. *)
(***************************************************************************)
NoMatch == [matched |-> FALSE, verb |-> <<>>, path |-> <<>>, http_version |-> <<>>]

whoami_get_re(line) ==
    LET verb == IF StartsWith(line, sGET) THEN sGET
                ELSE IF StartsWith(line, sPOST) THEN sPOST ELSE <<>>
        rest == DropFirst(line, Len(verb))
        r1   == LStrip(rest)             \* after (GET|POST)\s+
        r2   == RStrip(r1)               \* before \s*$
        d2   == TrailingDigits(r2)
        r3   == DropLast(r2, d2)
        r4   == DropLast(r3, 1)          \* before \.
        d1   == TrailingDigits(r4)
        r5   == DropLast(r4, d1)
        r6   == DropLast(r5, Len(sHTTP)) \* before HTTP/
        path == RStrip(r6)
    IN  IF /\ verb # <<>>
           /\ Len(rest) > Len(r1)
           /\ d2 >= 1
           /\ r3 # <<>> /\ r3[Len(r3)] = "."
           /\ d1 >= 1
           /\ EndsWith(r5, sHTTP)
           /\ Len(r6) > Len(path)
           /\ path # <<>>
        THEN [matched |-> TRUE, verb |-> verb, path |-> path,
              http_version |-> SubSeq(r2, Len(r2) - d2 - d1, Len(r2))]
        ELSE NoMatch

(***************************************************************************)
(* The result dict of parse_whoami_response: a sequence of entries in      *)
(* insertion order; a value is a str (list = FALSE, v a string) or a list  *)
(* of str (list = TRUE, v a sequence of strings).                          *)
(***************************************************************************)
StrVal(s) == [list |-> FALSE, v |-> s]

ListVal(ss) == [list |-> TRUE, v |-> ss]

\* key in result
HasKey(result, key) == \E i \in 1..Len(result) : result[i].key = key

KeyIndex(result, key) == CHOOSE i \in 1..Len(result) : result[i].key = key

\* result[key]
DictItem(result, key) == result[KeyIndex(result, key)].val

\* result[key] = val
DictSet(result, key, val) ==
    IF HasKey(result, key)
    THEN [result EXCEPT ![KeyIndex(result, key)].val = val]
    ELSE Append(result, [key |-> key, val |-> val])

\* HeaderLine that stores the value of the line in place of what the key held
HeaderLineKeepsLast(result, line) ==
    LET i     == IndexOf(line, ":")
        key   == Strip(SubSeq(line, 1, i - 1))
        value == Strip(DropFirst(line, i))
    IN  DictSet(result, key, StrVal(value))

\* the else branch of the loop body, for a line that holds a colon
HeaderLine(result, line) ==
    LET i     == IndexOf(line, ":")
        key   == Strip(SubSeq(line, 1, i - 1))
        value == Strip(DropFirst(line, i))
    IN  IF HasKey(result, key)
        THEN LET old == DictItem(result, key) IN
             IF old.list
             THEN DictSet(result, key, ListVal(Append(old.v, value)))
             ELSE DictSet(result, key, ListVal(<<old.v, value>>))
        ELSE DictSet(result, key, StrVal(value))

\* the if branch of the loop body, for a line the pattern matches
RequestLine(result, m) ==
    DictSet(DictSet(DictSet(result, kHttpVerb, StrVal(m.verb)),
                    kHttpPath, StrVal(m.path)),
            kHttpVersion, StrVal(m.http_version))

\* ParseLines that passes over a line without colon
RECURSIVE ParseLinesSkipsNoColon(_, _)
ParseLinesSkipsNoColon(lines, result) ==
    IF lines = <<>> THEN [ok |-> TRUE, result |-> result, line |-> <<>>]
    ELSE LET line == Head(lines)
             m    == whoami_get_re(line)
         IN  IF Strip(line) = <<>> THEN ParseLinesSkipsNoColon(Tail(lines), result)
             ELSE IF m.matched
                  THEN ParseLinesSkipsNoColon(Tail(lines), RequestLine(result, m))
             ELSE IF IndexOf(line, ":") = 0
                  THEN ParseLinesSkipsNoColon(Tail(lines), result)
             ELSE ParseLinesSkipsNoColon(Tail(lines), HeaderLine(result, line))

\* the loop of parse_whoami_response over the lines that are left; the
\* outcome is the dict, or the HubError of the first line that has no colon
RECURSIVE ParseLines(_, _)
ParseLines(lines, result) ==
    IF lines = <<>> THEN [ok |-> TRUE, result |-> result, line |-> <<>>]
    ELSE LET line == Head(lines)
             m    == whoami_get_re(line)
         IN  IF Strip(line) = <<>> THEN ParseLines(Tail(lines), result)
             ELSE IF m.matched
                  THEN ParseLines(Tail(lines), RequestLine(result, m))
             ELSE IF IndexOf(line, ":") = 0
                  THEN [ok |-> FALSE, result |-> <<>>, line |-> line]
             ELSE ParseLines(Tail(lines), HeaderLine(result, line))

parse_whoami_response(response) == ParseLines(SplitLines(response), <<>>)

(***************************************************************************)
(* Exceptions: the class, the message (the text of the f-string without    *)
(* its values), the values the message names, and the chain: cause is the  *)
(* __cause__ set by "raise ... from e", context the __context__ Python     *)
(* sets on an exception raised inside an except block.                     *)
(***************************************************************************)
NoChain == [type |-> "", msg |-> ""]

Exc(type, msg) ==
    [type |-> type, msg |-> msg, host |-> "", port |-> 0, forward |-> 0,
     cause |-> NoChain, context |-> NoChain]

NoError == Exc("", "")

HubError(msg) == Exc("HubError", msg)

\* the (type, msg) of e, as kept in the chain of the exception that wraps it
Chained(e) == [type |-> e.type, msg |-> e.msg]

(***************************************************************************)
(* test_whoami_port_connection                                             *)
(***************************************************************************)
\* NormalizePrefix that leaves a prefix without "/" as it is given
NormalizePrefixAsGiven(stripped_path_prefix) ==
    IF ~stripped_path_prefix.some THEN None
    ELSE IF stripped_path_prefix.v = <<>> THEN None
    ELSE stripped_path_prefix

\* lines 92-96: "" is None, and the prefix is made to start with "/"
NormalizePrefix(stripped_path_prefix) ==
    IF ~stripped_path_prefix.some THEN None
    ELSE IF stripped_path_prefix.v = <<>> THEN None
    ELSE IF ~StartsWith(stripped_path_prefix.v, <<"/">>)
         THEN Some(<<"/">> \o stripped_path_prefix.v)
    ELSE stripped_path_prefix

\* headers.get(key): None when the key is absent
DictGet(headers, key) ==
    IF HasKey(headers, key)
    THEN [some |-> TRUE, val |-> DictItem(headers, key)]
    ELSE [some |-> FALSE, val |-> StrVal(<<>>)]

\* Python's != between a dict value (str or list) and a str
NotEqualStr(val, s) == IF val.list THEN TRUE ELSE val.v # s

\* lines 116-120: the Hostname checks
CheckHostname(hostname, expected_hostname) ==
    IF ~hostname.some
    THEN HubError("whoami server did not return a hostname")
    ELSE IF expected_hostname.some /\ NotEqualStr(hostname.val, expected_hostname.v)
    THEN HubError("whoami server returned nonmatching hostname")
    ELSE NoError

\* lines 108-115: the http-path checks; http_path is headers.get("http-path")
\* CheckPath without the comparison of line 114
CheckPathPresenceOnly(http_path, prefix, random_path) ==
    IF ~http_path.some
    THEN HubError("whoami server did not return an HTTP path")
    ELSE NoError

\* CheckPath that compares the path as observed, without the prefix
CheckPathNoPrefix(http_path, prefix, random_path) ==
    IF ~http_path.some
    THEN HubError("whoami server did not return an HTTP path")
    ELSE IF NotEqualStr(http_path.val, <<"/">> \o random_path)
    THEN HubError("whoami server returned nonmatching HTTP path")
    ELSE NoError

CheckPath(http_path, prefix, random_path) ==
    IF ~http_path.some
    THEN HubError("whoami server did not return an HTTP path")
    ELSE IF prefix.some /\ http_path.val.list
    THEN Exc("TypeError", "can only concatenate str (not list) to str")
    ELSE LET adjusted == IF prefix.some
                         THEN StrVal(prefix.v \o http_path.val.v)
                         ELSE http_path.val
         IN  IF NotEqualStr(adjusted, <<"/">> \o random_path)
             THEN HubError("whoami server returned nonmatching HTTP path")
             ELSE NoError

\* test_whoami_port_connection with the Hostname checks before the http-path
\* checks
test_whoami_port_connection_hostname_first(download, random_path, expected_hostname, stripped_path_prefix) ==
    LET prefix  == NormalizePrefix(stripped_path_prefix)
        parsed  == parse_whoami_response(download.text)
        headers == parsed.result
        hostErr == CheckHostname(DictGet(headers, kHostname), expected_hostname)
    IN  IF ~download.ok THEN Exc("HTTPError", "download_url_text failed")
        ELSE IF ~parsed.ok
        THEN HubError("Invalid whoami response line (no colon)")
        ELSE IF hostErr # NoError THEN hostErr
        ELSE CheckPath(DictGet(headers, kHttpPath), prefix, random_path)

\* The body of test_whoami_port_connection from line 92 on.  download is what
\* download_url_text did for http://host:port/random_path: it returned text
\* (ok) or raised.  The value is the exception raised, NoError on return.
test_whoami_port_connection(download, random_path, expected_hostname, stripped_path_prefix) ==
    LET prefix  == NormalizePrefix(stripped_path_prefix)
        parsed  == parse_whoami_response(download.text)
        headers == parsed.result
        pathErr == CheckPath(DictGet(headers, kHttpPath), prefix, random_path)
    IN  IF ~download.ok THEN Exc("HTTPError", "download_url_text failed")
        ELSE IF ~parsed.ok
        THEN HubError("Invalid whoami response line (no colon)")
        ELSE IF pathErr # NoError THEN pathErr
        ELSE CheckHostname(DictGet(headers, kHostname), expected_hostname)

(***************************************************************************)
(* test_public_dns_name: resolved is the list resolve_public_dns returned, *)
(* public_ip_address what get_public_ip_address returned.                  *)
(***************************************************************************)
Contains(seq, x) == \E i \in 1..Len(seq) : seq[i] = x

\* test_public_dns_name with the two tests in the other order
test_public_dns_name_size_first(public_ip_address, resolved) ==
    IF Len(resolved) > 1
    THEN HubError("Public DNS name resolves to multiple IP addresses")
    ELSE IF ~Contains(resolved, public_ip_address)
    THEN HubError("Public DNS name resolves to other addresses, not the public IP")
    ELSE NoError

\* test_public_dns_name without the test of line 177
test_public_dns_name_any_of(public_ip_address, resolved) ==
    IF ~Contains(resolved, public_ip_address)
    THEN HubError("Public DNS name resolves to other addresses, not the public IP")
    ELSE NoError

test_public_dns_name(public_ip_address, resolved) ==
    IF ~Contains(resolved, public_ip_address)
    THEN HubError("Public DNS name resolves to other addresses, not the public IP")
    ELSE IF Len(resolved) > 1
    THEN HubError("Public DNS name resolves to multiple IP addresses")
    ELSE NoError

(***************************************************************************)
(* Module-level lists and the numbers of test_server_traefik_ports.        *)
(***************************************************************************)
subdomains == <<"ddns", "traefik", "portainer", "hub", "whoami">>

ports == <<80, 443, 7080, 7443, 8080, 9000>>

\* the list of the second loop of test_server_traefik_ports
public_ports == <<80, 443>>

\* the "forwarding to {lan_ip_address}:{port+7000}" of the public loop
ForwardOffset == 7000

Range(seq) == {seq[i] : i \in 1..Len(seq)}

(***************************************************************************)
(* The collaborators, at their interface.                                  *)
(***************************************************************************)
\* the addresses of the public internet the model knows
PublicAddrs == {"1.2.3.4", "1.2.3.5", "1.2.3.6"}

\* get_lan_ip_address()
lan_ip_address == "192.168.0.2"

\* what resolve_public_dns(name) can return: a list of distinct addresses
DnsAnswers ==
    {a \in UNION {[1..n -> PublicAddrs] : n \in 0..MaxResolved} :
        \A i, j \in 1..Len(a) : i # j => a[i] # a[j]}

\* the hex alphabet the model draws random tokens from
HexChars == {"a", "b"}

\* token_bytes(16).hex(), cut to n characters
TokenHex(n) == [1..n -> HexChars]

\* what a whoami stub answers to "GET path": its Hostname line, then the
\* request line it received
WhoamiEcho(hostname, path) ==
    JoinLines(<< kHostname \o <<":", " ">> \o hostname,
                 sGET \o <<" ">> \o path \o <<" ">> \o sHTTP \o <<"1", ".", "1">> >>)

\* download_url_text raised
Refused == [ok |-> FALSE, text |-> <<>>, by |-> 0]

\* download_url_text returned text; by is the port of the stub listener of
\* this run that produced it, 0 when something else did
Answer(text, by) == [ok |-> TRUE, text |-> text, by |-> by]

\* The echo of the stub listeners of this run that a GET of /random_path
\* can reach (reachable: their ports); the containers of the stack are named
\* hostname.
StubAnswers(reachable, hostname, random_path) ==
    {Answer(WhoamiEcho(hostname, <<"/">> \o random_path), q) : q \in reachable}

\* What else a GET of /random_path can come back with: no answer; or, from
\* something that is no stub listener of this run, the echo of a whoami that
\* is not of this run, an answer of this run to another request, a page that
\* is no echo, an echo without Hostname, an echo without request line.
OtherAnswers(hostname, random_path) ==
    {Refused,
     Answer(WhoamiEcho(sPortTest, <<"/">> \o random_path), 0),
     Answer(WhoamiEcho(hostname, <<"/">>), 0),
     Answer(JoinLines(<< <<"<", "h", "t", "m", "l", ">">> >>), 0),
     Answer(JoinLines(<< sGET \o <<" ", "/">> \o random_path
                          \o <<" ">> \o sHTTP \o <<"1", ".", "1">> >>), 0),
     Answer(JoinLines(<< kHostname \o <<":", " ">> \o hostname >>), 0)}

\* A response that is not new: the text the call before (last) received,
\* delivered again by something between the run and the listeners.
StaleAnswers(last) ==
    IF last.called /\ last.download.ok
    THEN {Answer(last.download.text, 0)} ELSE {}

\* DockerComposeStack.__exit__ with auto_down=True: docker-compose down
StackDown(live) == {}

\* StackEnterFailed of a stack that leaves what it started
StackEnterFailedLeaks(partial) == partial

\* DockerComposeStack.__enter__ that fails after it started the listeners in
\* partial: the stack takes down what it started before it raises
StackEnterFailed(partial) == {}

(***************************************************************************)
(* State.                                                                  *)
(***************************************************************************)
VARIABLES
    pc,            \* where the run is
    idx,           \* position of the loop of pc in its list (1-based)
    public_ip,     \* what get_public_ip_address() returns
    stable_public_ip_address,   \* main's local, "" until assigned
    suffix,        \* random_hostname_suffix without its "-"
    stack_created, \* test_server_traefik_ports' local
    listeners,     \* ports the stub listeners of the stack are bound to
    started,       \* ports the stack started during this run (history)
    log,           \* the operations issued so far, in order (history)
    lastDns,       \* the last call of test_public_dns_name
    lastProbe,     \* the last call of test_whoami_port_connection
    lastParse,     \* the last call of parse_whoami_response
    err,           \* the exception that ended the run, NoError if none
    rc,            \* the exit code of the process, -1 while it runs
    summary        \* the success summary was printed

vars == <<pc, idx, public_ip, stable_public_ip_address, suffix,
          stack_created, listeners, started, log, lastDns, lastProbe,
          lastParse, err, rc, summary>>

NoDns == [hostname |-> "", resolved |-> <<>>, expected |-> "", error |-> NoError]

NoProbe ==
    [called |-> FALSE, kind |-> "", host |-> "", port |-> 0,
     random_path |-> <<>>, expected_hostname |-> None,
     stripped_path_prefix |-> None, download |-> Refused, error |-> NoError]

\* no call of parse_whoami_response yet; response is its argument
NoParse ==
    [called |-> FALSE, response |-> <<>>, ok |-> TRUE, result |-> <<>>,
     line |-> <<>>]

\* the record of one call of parse_whoami_response: the dict it returned
\* (ok), or the line its HubError carries
ParseCall(response) ==
    LET r == parse_whoami_response(response) IN
    [called |-> TRUE, response |-> response, ok |-> r.ok, result |-> r.result,
     line |-> r.line]

\* line 105: the call is reached when download_url_text returned
ProbeParse(download, last) ==
    IF download.ok THEN ParseCall(download.text) ELSE last

PortSet == Range(ports)

\* the network the run is started in, and the state of a fresh process
InitNetwork == public_ip \in PublicAddrs

InitLocals ==
    /\ idx = 0
    /\ stable_public_ip_address = ""
    /\ suffix = <<>>
    /\ stack_created = FALSE
    /\ listeners = {}
    /\ started = {}
    /\ log = <<>>
    /\ lastDns = NoDns
    /\ lastProbe = NoProbe
    /\ lastParse = NoParse
    /\ err = NoError
    /\ rc = -1
    /\ summary = FALSE

\* A run starts either as the script (python3 test-network-prereqs.py, pc =
\* "load": the file is compiled first) or at the first statement of
\* App.main after parse_args (pc = "main": the statements as written).
Init == pc \in {"load", "main"} /\ InitNetwork /\ InitLocals

\* Uncaught of a run that reports the exception and goes on
Swallowed(e) ==
    /\ pc' = pc
    /\ err' = e
    /\ rc' = rc
    /\ UNCHANGED <<idx, summary, public_ip>>

\* an exception leaves main: the interpreter prints the chain and exits 1
Uncaught(e) ==
    /\ pc' = "exit"
    /\ err' = e
    /\ rc' = 1
    /\ UNCHANGED <<idx, summary, public_ip>>

(***************************************************************************)
(* main, lines 191-198: the stable public DNS name must resolve to exactly *)
(* one address.                                                            *)
(***************************************************************************)
ResolveStable ==
    /\ pc = "main"
    /\ \E ips \in DnsAnswers :
          /\ log' = Append(log, [op |-> "resolve", host |-> "stable", port |-> 0])
          /\ IF Len(ips) = 0
             THEN /\ Uncaught(HubError("Stable public DNS name does not resolve to any IP addresses"))
                  /\ UNCHANGED stable_public_ip_address
             ELSE IF Len(ips) > 1
             THEN /\ Uncaught(HubError("Stable public DNS name resolves to multiple IP addresses"))
                  /\ UNCHANGED stable_public_ip_address
             ELSE /\ stable_public_ip_address' = ips[1]
                  /\ pc' = "dns"
                  /\ idx' = 1
                  /\ UNCHANGED <<err, rc, summary, public_ip>>
    /\ UNCHANGED <<suffix, stack_created, listeners, started, lastDns, lastProbe,
                   lastParse>>

(***************************************************************************)
(* main, lines 215-216: one pass of the loop over subdomains, a call of    *)
(* test_public_dns_name.                                                   *)
(***************************************************************************)
DnsCheck ==
    /\ pc = "dns"
    /\ \E resolved \in DnsAnswers :
          LET e == test_public_dns_name(public_ip, resolved) IN
          /\ lastDns' = [hostname |-> subdomains[idx], resolved |-> resolved,
                         expected |-> public_ip, error |-> e]
          /\ log' = Append(log, [op |-> "dns", host |-> subdomains[idx], port |-> 0])
          /\ IF e # NoError THEN Uncaught(e)
             ELSE /\ pc' = IF idx = Len(subdomains) THEN "acquire" ELSE "dns"
                  /\ idx' = IF idx = Len(subdomains) THEN 0 ELSE idx + 1
                  /\ UNCHANGED <<err, rc, summary, public_ip>>
    /\ UNCHANGED <<stable_public_ip_address, suffix, stack_created, listeners,
                   started, lastProbe, lastParse>>

(***************************************************************************)
(* test_server_traefik_ports.                                              *)
(***************************************************************************)
\* line 135
expected_hostname == sPortTest \o <<"-">> \o suffix

\* OuterExcept without the stack_created test: every exception is reported as
\* a failure to launch the stack
OuterExceptAlways(created, e) ==
    [HubError("Unable to launch port test stack. Check to ensure Traefik is not running")
        EXCEPT !.cause = Chained(e), !.context = Chained(e)]

\* lines 164-167: the handler around the with statement
OuterExcept(created, e) ==
    IF ~created
    THEN [HubError("Unable to launch port test stack. Check to ensure Traefik is not running")
            EXCEPT !.cause = Chained(e), !.context = Chained(e)]
    ELSE e

\* lines 156-157: raise HubError(...) from e
LanExcept(e, host, port) ==
    [HubError("Test for hub LAN port failed")
        EXCEPT !.host = host, !.port = port, !.cause = Chained(e),
               !.context = Chained(e)]

\* lines 162-163: raise(f"...") from e.  The operand of raise is a str, so
\* Python raises TypeError in its place; no cause is set, and e is kept
\* only as the implicit context.
PublicExcept(e, host, port) ==
    [Exc("TypeError", "exceptions must derive from BaseException")
        EXCEPT !.context = Chained(e)]

\* WithExit of a stack that is not taken down (auto_down left out)
WithExitNoDown(live) == live

\* leaving the with block of line 142, by its end or by an exception:
\* __exit__ runs, and auto_down=True takes the stack down
WithExit(live) == StackDown(live)

\* lines 133-150: the stack is entered (or fails to be)
AcquireStack ==
    /\ pc = "acquire"
    /\ \E sfx \in TokenHex(SuffixLen) :
          /\ suffix' = sfx
          /\ \/ /\ started' = PortSet
                /\ listeners' = PortSet
                /\ stack_created' = TRUE
                /\ log' = Append(log, [op |-> "acquire", host |-> "", port |-> 0])
                /\ pc' = "settle"
                /\ UNCHANGED <<idx, err, rc, summary, public_ip>>
             \/ \E partial \in SUBSET PortSet :
                   /\ partial # PortSet
                   /\ started' = partial
                   /\ listeners' = StackEnterFailed(partial)
                   /\ log' = Append(log, [op |-> "acquire_failed", host |-> "", port |-> 0])
                   /\ Uncaught(OuterExcept(stack_created, Exc("DockerError", "docker-compose up failed")))
                   /\ UNCHANGED stack_created
    /\ UNCHANGED <<stable_public_ip_address, lastDns, lastProbe, lastParse>>

\* Settle of a run that goes to the probes without the sleep
SettleLeftOut ==
    /\ pc = "settle"
    /\ pc' = "lan"
    /\ idx' = 1
    /\ UNCHANGED <<public_ip, stable_public_ip_address, suffix,
                   stack_created, listeners, started, log, lastDns, lastProbe,
                   lastParse, err, rc, summary>>

\* line 151: time.sleep(4.0)
Settle ==
    /\ pc = "settle"
    /\ pc' = "lan"
    /\ idx' = 1
    /\ log' = Append(log, [op |-> "settle", host |-> "", port |-> 0])
    /\ UNCHANGED <<public_ip, stable_public_ip_address, suffix,
                   stack_created, listeners, started, lastDns, lastProbe,
                   lastParse, err, rc, summary>>

\* the record of one call of test_whoami_port_connection
ProbeCall(kind, host, port, random_path, exp_hostname, prefix, download) ==
    [called |-> TRUE, kind |-> kind, host |-> host, port |-> port,
     random_path |-> random_path, expected_hostname |-> exp_hostname,
     stripped_path_prefix |-> prefix, download |-> download,
     error |-> test_whoami_port_connection(download, random_path,
                                           exp_hostname, prefix)]

\* lines 152-157: one pass of the loop over ports; call is the one call of
\* the probe the pass makes
LanProbe ==
    /\ pc = "lan"
    /\ \E random_path \in TokenHex(NonceLen) :
       \E download \in StubAnswers({ports[idx]} \cap listeners, expected_hostname, random_path)
                        \cup OtherAnswers(expected_hostname, random_path)
                        \cup StaleAnswers(lastProbe) :
          \E call \in {ProbeCall("lan", lan_ip_address, ports[idx], random_path,
                                 Some(expected_hostname), None, download)} :
          /\ lastProbe' = call
          /\ lastParse' = ProbeParse(download, lastParse)
          /\ log' = Append(log, [op |-> "probe", host |-> lan_ip_address, port |-> ports[idx]])
          /\ IF call.error # NoError
             THEN /\ listeners' = WithExit(listeners)
                  /\ Uncaught(OuterExcept(stack_created,
                                 LanExcept(call.error, lan_ip_address, ports[idx])))
             ELSE /\ pc' = IF idx = Len(ports) THEN "public" ELSE "lan"
                  /\ idx' = IF idx = Len(ports) THEN 1 ELSE idx + 1
                  /\ UNCHANGED <<listeners, err, rc, summary, public_ip>>
    /\ UNCHANGED <<stable_public_ip_address, suffix, stack_created, started, lastDns>>

\* lines 158-163: one pass of the loop over [ 80, 443 ]; the gateway hands
\* the connection to the LAN port its forwarding rule for the public port
\* names, which may be any port of the host, or to none
PublicProbe ==
    /\ pc = "public"
    /\ \E random_path \in TokenHex(NonceLen) :
       \E download \in StubAnswers(listeners, expected_hostname, random_path)
                        \cup OtherAnswers(expected_hostname, random_path)
                        \cup StaleAnswers(lastProbe) :
          \E call \in {ProbeCall("public", stable_public_ip_address, public_ports[idx],
                                 random_path, Some(expected_hostname), None, download)} :
          /\ lastProbe' = call
          /\ lastParse' = ProbeParse(download, lastParse)
          /\ log' = Append(log, [op |-> "probe", host |-> stable_public_ip_address,
                                 port |-> public_ports[idx]])
          /\ IF call.error # NoError
             THEN /\ listeners' = WithExit(listeners)
                  /\ Uncaught(OuterExcept(stack_created,
                                 PublicExcept(call.error, stable_public_ip_address,
                                              public_ports[idx])))
             ELSE /\ pc' = IF idx = Len(public_ports) THEN "release" ELSE "public"
                  /\ idx' = IF idx = Len(public_ports) THEN 0 ELSE idx + 1
                  /\ UNCHANGED <<listeners, err, rc, summary, public_ip>>
    /\ UNCHANGED <<stable_public_ip_address, suffix, stack_created, started, lastDns>>

\* the end of the with block, and line 168
Release ==
    /\ pc = "release"
    /\ listeners' = WithExit(listeners)
    /\ log' = Append(log, [op |-> "release", host |-> "", port |-> 0])
    /\ pc' = "summary"
    /\ UNCHANGED <<idx, public_ip, stable_public_ip_address, suffix,
                   stack_created, started, lastDns, lastProbe, lastParse, err,
                   rc, summary>>

\* main, lines 220-245: the summary is printed and main returns 0
Summary ==
    /\ pc = "summary"
    /\ summary' = TRUE
    /\ rc' = 0
    /\ pc' = "exit"
    /\ UNCHANGED <<idx, public_ip, stable_public_ip_address, suffix,
                   stack_created, listeners, started, log, lastDns, lastProbe,
                   lastParse, err>>

\* line 229, print(f"Ports {ports}} are all available for use."): a single
\* "}" in an f-string is a SyntaxError, so the file does not compile
SourceCompiles == FALSE

\* lines 248-250 run as a script: Python compiles the whole file before it
\* executes the first statement; a SyntaxError ends the process with 1
CompileModule ==
    /\ pc = "load"
    /\ IF SourceCompiles
       THEN /\ pc' = "main"
            /\ UNCHANGED <<idx, public_ip, err, rc, summary>>
       ELSE Uncaught(Exc("SyntaxError", "f-string: single '}' is not allowed"))
    /\ UNCHANGED <<stable_public_ip_address, suffix, stack_created, listeners,
                   started, log, lastDns, lastProbe, lastParse>>

Next ==
    \/ CompileModule
    \/ ResolveStable
    \/ DnsCheck
    \/ AcquireStack
    \/ Settle
    \/ LanProbe
    \/ PublicProbe
    \/ Release
    \/ Summary

Spec == Init /\ [][Next]_vars

(***************************************************************************)
(* test_whoami_port_connection on its own: the arguments and what          *)
(* download_url_text does are drawn, then the function is applied.         *)
(***************************************************************************)
HostH == <<"h">>

HostG == <<"g">>

HostnameLine(h) == kHostname \o <<":", " ">> \o h

RequestLineText(path) == sGET \o <<" ">> \o path \o <<" ">> \o sHTTP \o <<"1", ".", "1">>

\* the paths a response may echo: "/" + token, token, and the tokens that
\* are one character shorter
ObservedPaths ==
    {<<"/">> \o t : t \in TokenHex(NonceLen)} \cup TokenHex(NonceLen)
    \cup TokenHex(NonceLen - 1)

\* the token "aa...a"
TokenA == [i \in 1..NonceLen |-> "a"]

\* the response texts: up to two Hostname lines, then at most one request
\* line, then nothing, a header line named http-path, or a line without colon
ProbeTexts ==
    {JoinLines(hl \o rl \o tl) :
        hl \in {<<>>, <<HostnameLine(HostH)>>, <<HostnameLine(HostG)>>,
                <<HostnameLine(HostH), HostnameLine(HostH)>>},
        rl \in {<<>>} \cup {<<RequestLineText(p)>> : p \in ObservedPaths},
        tl \in {<<>>, <<kHttpPath \o <<":", "/">> \o TokenA>>, <<<<"<", "p", ">">>>>}}

ProbeDownloads == {Refused} \cup {Answer(t, 0) : t \in ProbeTexts}

ProbePrefixes == {None, Some(<<>>), Some(<<"/">>), Some(<<"a">>), Some(<<"/", "a">>)}

ProbeHostnames == {None, Some(HostH), Some(HostG)}

InitProbe ==
    /\ pc = "probe"
    /\ public_ip = "1.2.3.4"
    /\ idx = 0
    /\ stable_public_ip_address = ""
    /\ suffix = <<>>
    /\ stack_created = FALSE
    /\ listeners = {}
    /\ started = {}
    /\ log = <<>>
    /\ lastDns = NoDns
    /\ lastParse = NoParse
    /\ err = NoError
    /\ rc = -1
    /\ summary = FALSE
    /\ \E random_path \in TokenHex(NonceLen), eh \in ProbeHostnames,
          prefix \in ProbePrefixes, download \in ProbeDownloads :
          lastProbe = [NoProbe EXCEPT !.kind = "call", !.host = lan_ip_address,
                          !.port = 80, !.random_path = random_path,
                          !.expected_hostname = eh,
                          !.stripped_path_prefix = prefix,
                          !.download = download]

CallProbe ==
    /\ pc = "probe"
    /\ pc' = "probed"
    /\ lastProbe' = ProbeCall(lastProbe.kind, lastProbe.host, lastProbe.port,
                              lastProbe.random_path, lastProbe.expected_hostname,
                              lastProbe.stripped_path_prefix, lastProbe.download)
    /\ lastParse' = ProbeParse(lastProbe.download, lastParse)
    /\ UNCHANGED <<idx, public_ip, stable_public_ip_address, suffix,
                   stack_created, listeners, started, log, lastDns, err, rc,
                   summary>>

SpecProbe == InitProbe /\ [][CallProbe]_vars

(***************************************************************************)
(* parse_whoami_response on its own: a response text of at most MaxLines   *)
(* lines is drawn, then the function is applied.                           *)
(***************************************************************************)
\* The lines the texts are made of: three lines of header A (with and
\* without blanks around name and value), a line of header B, a GET and a
\* POST request line, a line named http-path, two lines without colon (one
\* of them a request line cut short), and a blank line.
LineA1 == <<"A", ":", " ", "1">>

LineA2 == <<"A", ":", "2">>

LineA3 == <<" ", "A", " ", ":", " ", "3", " ">>

LineB1 == <<"B", ":", " ", "1">>

LineGetX == RequestLineText(<<"/", "x">>)

LinePostY == sPOST \o <<" ", "/", "y", " ">> \o sHTTP \o <<"1", ".", "0">>

LineHttpPathZ == kHttpPath \o <<":", " ", "/", "z">>

LineNoColon == <<"o", "o", "p", "s">>

LineCutShort == sGET \o <<" ", "/", "x">>

LineBlank == <<" ">>

ParseSampleLines ==
    {LineA1, LineA2, LineA3, LineB1, LineGetX, LinePostY, LineHttpPathZ,
     LineNoColon, LineCutShort, LineBlank}

ParseTexts ==
    {JoinLines(ls) : ls \in UNION {[1..n -> ParseSampleLines] : n \in 0..MaxLines}}

InitParse ==
    /\ pc = "parse"
    /\ public_ip = "1.2.3.4"
    /\ idx = 0
    /\ stable_public_ip_address = ""
    /\ suffix = <<>>
    /\ stack_created = FALSE
    /\ listeners = {}
    /\ started = {}
    /\ log = <<>>
    /\ lastDns = NoDns
    /\ lastProbe = NoProbe
    /\ err = NoError
    /\ rc = -1
    /\ summary = FALSE
    /\ \E response \in ParseTexts :
          lastParse = [NoParse EXCEPT !.response = response]

CallParse ==
    /\ pc = "parse"
    /\ pc' = "parsed"
    /\ lastParse' = ParseCall(lastParse.response)
    /\ UNCHANGED <<idx, public_ip, stable_public_ip_address, suffix,
                   stack_created, listeners, started, log, lastDns, lastProbe,
                   err, rc, summary>>

SpecParse == InitParse /\ [][CallParse]_vars

(***************************************************************************)
(* Properties.                                                             *)
(***************************************************************************)
MsgUnableToLaunch == "Unable to launch port test stack. Check to ensure Traefik is not running"

MsgDnsNotPublic == "Public DNS name resolves to other addresses, not the public IP"

MsgDnsMultiple == "Public DNS name resolves to multiple IP addresses"

\* the stack failed to start in this run
AcquireFailed == \E i \in 1..Len(log) : log[i].op = "acquire_failed"

\* a call of test_whoami_port_connection raised
ProbeFailed == lastProbe.called /\ lastProbe.error # NoError

\* a call of test_public_dns_name raised
DnsFailed == lastDns.hostname # "" /\ lastDns.error # NoError

\* the resolution of the stable public DNS name ended the run
StableFailed ==
    pc = "exit" /\ log # <<>> /\ log[Len(log)].op = "resolve"

\* test_server_traefik_ports has returned or raised
PortsTestLeft == pc \in {"summary", "exit"}

\* C1: whenever test_server_traefik_ports has returned or raised after the
\* stack was entered (stack_created), no stub listener is left: on the
\* success path, on a failed LAN probe and on a failed public probe.
C1_ListenersStoppedOnEveryExit ==
    (stack_created /\ PortsTestLeft) => listeners = {}

\* C1 witness: the run ended by a failed public probe, all six listeners had
\* been started, and none is left.
C1_Witness ==
    /\ pc = "exit" /\ stack_created /\ started = PortSet
    /\ lastProbe.kind = "public" /\ ProbeFailed
    /\ listeners = {}

\* the record the response of the last probe decodes to, and its fields
ProbeParsed == parse_whoami_response(lastProbe.download.text)

ObservedPath == DictGet(ProbeParsed.result, kHttpPath)

ObservedHostname == DictGet(ProbeParsed.result, kHostname)

\* the observed http-path, with the normalized prefix put before it when
\* one is set, is "/" + nonce
ObservedPathMatches ==
    LET prefix == NormalizePrefix(lastProbe.stripped_path_prefix) IN
    /\ lastProbe.download.ok /\ ProbeParsed.ok
    /\ ObservedPath.some /\ ~ObservedPath.val.list
    /\ (IF prefix.some THEN prefix.v ELSE <<>>) \o ObservedPath.val.v
          = <<"/">> \o lastProbe.random_path

\* when a hostname is expected, the observed Hostname is that hostname
ExpectedHostnameMatches ==
    lastProbe.expected_hostname.some =>
        /\ ObservedHostname.some /\ ~ObservedHostname.val.list
        /\ ObservedHostname.val.v = lastProbe.expected_hostname.v

\* C2 as stated: a probe succeeds iff the prefix-adjusted path is "/" + nonce
\* and the expected hostname, when set, is the observed one; nothing else
\* makes it fail.
C2_SucceedsIffPathAndExpectedHostname ==
    pc = "probed" =>
        ((lastProbe.error = NoError)
            <=> (ObservedPathMatches /\ ExpectedHostnameMatches))

\* C2 amended: a probe succeeds iff the prefix-adjusted path is "/" + nonce,
\* the response carries a Hostname header, and the expected hostname, when
\* set, is the observed one.
C2_SucceedsIffPathHostnamePresentAndExpected ==
    pc = "probed" =>
        ((lastProbe.error = NoError)
            <=> (/\ ObservedPathMatches
                 /\ ObservedHostname.some
                 /\ ExpectedHostnameMatches))

\* C2 witness: a probe with a prefix and an expected hostname that passes.
C2_Witness ==
    /\ pc = "probed" /\ lastProbe.error = NoError
    /\ lastProbe.stripped_path_prefix = Some(<<"a">>)
    /\ lastProbe.expected_hostname.some

\* C3: a public probe of port P passes only when the stub listener on LAN
\* port P + 7000 produced the response.
C3_PublicProbeOnlyViaForwardedListener ==
    (lastProbe.called /\ lastProbe.kind = "public" /\ lastProbe.error = NoError)
        => lastProbe.download.by = lastProbe.port + ForwardOffset

\* C4: test_public_dns_name passes iff the resolved addresses are exactly
\* one address and it is the expected public address.
C4_DnsPassIffExactlyExpected ==
    lastDns.hostname # "" =>
        ((lastDns.error = NoError)
            <=> (/\ Cardinality(Range(lastDns.resolved)) = 1
                 /\ Range(lastDns.resolved) = {lastDns.expected}))

\* C4 witness: two addresses, one of them the expected one, and the
\* validation failed.
C4_Witness ==
    /\ lastDns.hostname # "" /\ lastDns.error # NoError
    /\ Len(lastDns.resolved) = 2
    /\ Contains(lastDns.resolved, lastDns.expected)

C6_ProbeFailureWrappedWithCause ==
    (pc = "exit" /\ ProbeFailed) =>
        /\ err.type = "HubError"
        /\ err.host = lastProbe.host /\ err.port = lastProbe.port
        /\ (lastProbe.kind = "public"
               => err.forward = lastProbe.port + ForwardOffset)
        /\ err.cause = Chained(lastProbe.error)

C8_ExitZeroIffEveryCheckPassed ==
    LET failed == StableFailed \/ DnsFailed \/ AcquireFailed \/ ProbeFailed IN
    pc = "exit" =>
        /\ (rc = 0 <=> ~failed)
        /\ (failed => ~summary)

\* C9: the run ends with the "Unable to launch port test stack" error iff
\* the stack failed to start; a failed probe is never reported with it.
C9_StartFailureDistinguished ==
    /\ AcquireFailed =>
          (pc = "exit" /\ err.type = "HubError" /\ err.msg = MsgUnableToLaunch
           /\ err.cause.type = "DockerError")
    /\ err.msg = MsgUnableToLaunch => (AcquireFailed /\ ~lastProbe.called)
    /\ ProbeFailed => err.msg # MsgUnableToLaunch

\* C9 witness: the stack failed to start and the run ended with that error.
C9_Witness ==
    pc = "exit" /\ AcquireFailed /\ err.msg = MsgUnableToLaunch

\* C10: when the stack fails to start after some listeners were started,
\* none of them is left when the failure has surfaced.
C10_PartialStartTornDown ==
    (AcquireFailed /\ pc = "exit") => listeners = {}

\* C10 witness: the start failed after 80 and 443 were started, and no
\* listener is left.
C10_Witness ==
    /\ AcquireFailed /\ pc = "exit"
    /\ started = {80, 443} /\ listeners = {}

\* the names of the three fields of the request line
RequestFields == {kHttpVerb, kHttpPath, kHttpVersion}

\* a line of the text that is neither blank nor a request line and holds a
\* colon: a header line, with its name and its value
IsHeaderLine(line) ==
    Strip(line) # <<>> /\ ~whoami_get_re(line).matched /\ IndexOf(line, ":") # 0

HeaderName(line) == Strip(SubSeq(line, 1, IndexOf(line, ":") - 1))

HeaderValue(line) == Strip(DropFirst(line, IndexOf(line, ":")))

\* the header lines of the text given to the last call of the decoder
ParsedHeaderLines == SelectSeq(SplitLines(lastParse.response), IsHeaderLine)

\* the values of header H in the text, in arrival order
ValuesOf(H) ==
    LET ls == SelectSeq(ParsedHeaderLines, LAMBDA l : HeaderName(l) = H)
    IN  [i \in 1..Len(ls) |-> HeaderValue(ls[i])]

\* seq without the elements that occurred before in it
RECURSIVE FirstOccurrences(_)
FirstOccurrences(seq) ==
    IF seq = <<>> THEN <<>>
    ELSE LET init == FirstOccurrences(DropLast(seq, 1))
             x    == seq[Len(seq)]
         IN  IF Contains(init, x) THEN init ELSE Append(init, x)

\* the header names of the text, other than the names of the request-line
\* fields, in the order of their first occurrence
ParsedHeaderNames ==
    FirstOccurrences(SelectSeq([i \in 1..Len(ParsedHeaderLines) |->
                                    HeaderName(ParsedHeaderLines[i])],
                               LAMBDA n : n \notin RequestFields))

IsMalformedLine(line) ==
    Strip(line) # <<>> /\ ~whoami_get_re(line).matched /\ IndexOf(line, ":") = 0

\* the lines of that kind of the text given to the last call of the decoder
ParsedMalformedLines == SelectSeq(SplitLines(lastParse.response), IsMalformedLine)

\* C12: when the text holds, at any position, a non-blank line with neither
\* a colon nor the shape of a request line, decoding raises the error for a
\* malformed response and returns no record, whatever lines precede or
\* follow; the line the error carries is such a line of the text, the first
\* of them.
C12_MalformedLineAlwaysRaises ==
    (pc = "parsed" /\ ParsedMalformedLines # <<>>) =>
        /\ ~lastParse.ok
        /\ lastParse.result = <<>>
        /\ lastParse.line = ParsedMalformedLines[1]

\* C12 witness: a header line, then "oops", then a request line cut short;
\* the error carries "oops".
C12_Witness ==
    /\ pc = "parsed"
    /\ lastParse.response = JoinLines(<<LineA1, LineNoColon, LineCutShort>>)
    /\ ~lastParse.ok /\ lastParse.line = LineNoColon

MsgNoPath == "whoami server did not return an HTTP path"

MsgPathMismatch == "whoami server returned nonmatching HTTP path"

MsgNoHostname == "whoami server did not return a hostname"

MsgHostnameMismatch == "whoami server returned nonmatching hostname"

\* the last probe got a response that decoded to a record with an http-path
\* that is a string: the path comparison of line 114 was made
PathCompared ==
    /\ lastProbe.called /\ lastProbe.download.ok /\ ProbeParsed.ok
    /\ ObservedPath.some /\ ~ObservedPath.val.list

\* C13: a prefix that is set and not empty is put before the observed path,
\* with a "/" in front of it when it does not start with one, and the probe
\* reports a nonmatching path exactly when the result differs from
\* "/" + nonce; a probe with the empty prefix ends as the same probe without
\* prefix does.
C13_PrefixNormalizedAndPrepended ==
    (pc = "probed" /\ PathCompared) =>
        LET p        == lastProbe.stripped_path_prefix
            observed == ObservedPath.val.v
            adjusted == IF ~p.some \/ p.v = <<>> THEN observed
                        ELSE IF Head(p.v) = "/" THEN p.v \o observed
                        ELSE <<"/">> \o p.v \o observed
        IN  /\ (lastProbe.error.msg = MsgPathMismatch)
                   <=> (adjusted # <<"/">> \o lastProbe.random_path)
            /\ (p = Some(<<>>)) =>
                   lastProbe.error =
                       test_whoami_port_connection(lastProbe.download,
                           lastProbe.random_path, lastProbe.expected_hostname, None)

\* C13 witness: prefix "a", observed path "a", nonce "aa": "/a" + "a" is
\* "/aa", and the probe passes.
C13_Witness ==
    /\ pc = "probed" /\ PathCompared
    /\ lastProbe.stripped_path_prefix = Some(<<"a">>)
    /\ ObservedPath.val.v = <<"a">>
    /\ lastProbe.random_path = <<"a", "a">>
    /\ lastProbe.expected_hostname = None
    /\ lastProbe.error = NoError

\* the operations of a complete run, in the order of the statements of main
\* and test_server_traefik_ports
RunOrder ==
    << [op |-> "resolve", host |-> "stable", port |-> 0] >>
    \o [i \in 1..Len(subdomains) |-> [op |-> "dns", host |-> subdomains[i], port |-> 0]]
    \o << [op |-> "acquire", host |-> "", port |-> 0],
          [op |-> "settle", host |-> "", port |-> 0] >>
    \o [i \in 1..Len(ports) |-> [op |-> "probe", host |-> lan_ip_address, port |-> ports[i]]]
    \o [i \in 1..Len(public_ports) |->
            [op |-> "probe", host |-> stable_public_ip_address, port |-> public_ports[i]]]
    \o << [op |-> "release", host |-> "", port |-> 0] >>

IsPrefix(a, b) == Len(a) <= Len(b) /\ a = SubSeq(b, 1, Len(a))

\* C14: the operations issued so far are, one after the other, a beginning
\* of: the subdomain DNS checks in list order, the acquisition of the stack,
\* the settle delay, the LAN probes of 80, 443, 7080, 7443, 8080, 9000, the
\* public probes of 80, 443, the release; an acquisition that fails is the
\* last operation of its run.  So no probe comes before acquisition and
\* delay or after the release, and a probe is issued only when the one
\* before it has returned.
C14_StrictlySequentialOrder ==
    LET issued == [i \in 1..Len(log) |->
                      IF log[i].op = "acquire_failed"
                      THEN [log[i] EXCEPT !.op = "acquire"] ELSE log[i]]
    IN  /\ IsPrefix(issued, RunOrder)
        /\ \A i \in 1..Len(log) : log[i].op = "acquire_failed" => i = Len(log)

\* C14 witness: a run that issued all seventeen operations and released
\* the stack.
C14_Witness ==
    /\ pc = "summary"
    /\ log = RunOrder
    /\ log[Len(log)].op = "release" /\ log[Len(subdomains) + 3].op = "settle"

\* the lines of the text given to the last call of the decoder that the
\* request-line pattern matches, as matched
ParsedRequestLines ==
    LET ls == SelectSeq(SplitLines(lastParse.response),
                        LAMBDA l : whoami_get_re(l).matched)
    IN  [i \in 1..Len(ls) |-> whoami_get_re(ls[i])]

\* what request line m gives for field f
RequestField(m, f) ==
    IF f = kHttpVerb THEN m.verb
    ELSE IF f = kHttpPath THEN m.path
    ELSE m.http_version

\* C15: in the record a probe decoded, each of http-verb, http-path and
\* http-version is there only when the text has a request line, and is then
\* what a request line of the text gives for it; and a probe whose response
\* decodes and has no request line fails the http-path presence check.
C15_RequestFieldsOnlyFromRequestLine ==
    (pc = "probed" /\ lastProbe.download.ok /\ lastParse.ok) =>
        /\ \A f \in RequestFields :
              LET field == DictGet(lastParse.result, f) IN
              field.some =>
                  \E i \in 1..Len(ParsedRequestLines) :
                      field.val = StrVal(RequestField(ParsedRequestLines[i], f))
        /\ ParsedRequestLines = <<>> => lastProbe.error.msg = MsgNoPath

\* C16: when a text that decodes has more than one line the request-line
\* pattern matches (and no header line named like a request-line field),
\* http-verb, http-path and http-version of the record are those of the
\* first of these lines.
C16_FirstRequestLineWins ==
    (/\ pc = "parsed" /\ lastParse.ok
     /\ Len(ParsedRequestLines) > 1
     /\ \A i \in 1..Len(ParsedHeaderLines) :
           HeaderName(ParsedHeaderLines[i]) \notin RequestFields) =>
        \A f \in RequestFields :
            DictGet(lastParse.result, f) =
                [some |-> TRUE, val |-> StrVal(RequestField(ParsedRequestLines[1], f))]

\* C17: the nonce is drawn in each call of the probe, and a probe that is
\* given a response echoing the path of the probe before it, whose nonce was
\* another one, does not pass.  (Two calls can draw the same nonce, in the
\* model as in the code; the statement is about the calls that did not.)
C17_StaleEchoNeverPasses ==
    [][(/\ lastProbe.called /\ lastProbe'.called /\ lastProbe' # lastProbe
        /\ lastProbe'.random_path # lastProbe.random_path
        /\ lastProbe'.download.ok /\ lastParse'.ok
        /\ DictGet(lastParse'.result, kHttpPath) =
              [some |-> TRUE, val |-> StrVal(<<"/">> \o lastProbe.random_path)])
       => lastProbe'.error.msg = MsgPathMismatch]_vars

\* C17 witness: the LAN probe of port 443 was given the echo of a path that
\* is "/" and a nonce other than its own, with the hostname of this run,
\* and the run ended with the path mismatch.
C17_Witness ==
    /\ pc = "exit" /\ lastProbe.called /\ lastProbe.port = 443
    /\ \E n \in TokenHex(NonceLen) :
          /\ n # lastProbe.random_path
          /\ lastProbe.download =
                Answer(WhoamiEcho(expected_hostname, <<"/">> \o n), 0)
    /\ lastProbe.error.msg = MsgPathMismatch

\* the first of the five checks, in the order of the claim, that the
\* arguments and the response of the last probe do not satisfy
FirstFailedCheck ==
    IF ~lastProbe.download.ok \/ ~ProbeParsed.ok THEN "transport/decoding"
    ELSE IF ~ObservedPath.some THEN "http-path present"
    ELSE IF ~ObservedPathMatches THEN "path equals"
    ELSE IF ~ObservedHostname.some THEN "Hostname present"
    ELSE IF ~ExpectedHostnameMatches THEN "Hostname equals"
    ELSE "none"

\* the check an error of the probe belongs to.  The path comparison raises
\* the nonmatching-path HubError, or, when a prefix is to be put before an
\* http-path that is a list, the TypeError of that concatenation.
CheckOfError(e) ==
    IF e = NoError THEN "none"
    ELSE IF e.type = "HTTPError" \/ e.msg = "Invalid whoami response line (no colon)"
    THEN "transport/decoding"
    ELSE IF e.msg = MsgNoPath THEN "http-path present"
    ELSE IF e.msg = MsgPathMismatch \/ e.type = "TypeError" THEN "path equals"
    ELSE IF e.msg = MsgNoHostname THEN "Hostname present"
    ELSE IF e.msg = MsgHostnameMismatch THEN "Hostname equals"
    ELSE "other"

C19_SummaryAddressIsValidatedAddress ==
    summary =>
        /\ lastProbe.kind = "public" /\ lastProbe.host = stable_public_ip_address
        /\ lastDns.hostname # "" /\ lastDns.error = NoError
        /\ lastDns.expected = stable_public_ip_address

====
